---------------------------- MODULE Spec2Model ----------------------------
(***************************************************************************)
(* Maintenance PM dashboard (src/Pm_dashboard.py): the due-point           *)
(* calculator, the status classifier, the KPI counts and the operations    *)
(* that change the record collection held in st.session_state.df.          *)
(*                                                                         *)
(* Python values.  A cell of a numeric or date column is a record          *)
(* [k, v]: k names the Python type and shape of the value, v its number.   *)
(*   "nan"     float NaN: what pd.read_csv(dtype=str) gives an empty cell  *)
(*   "none"    None: what ensure_columns gives a column the file lacks     *)
(*   "empty"   the string ""                                               *)
(*   "text"    a string that is neither a number nor a date ("abc")        *)
(*   "num"     a decimal string; v is its value in tenths ("6" is 60,      *)
(*             "2.5" is 25)                                                *)
(*   "int"     a Python int v                                              *)
(*   "date"    the string strftime("%Y-%m-%d") gives date v                *)
(*   "dateobj" a datetime.date; v is its proleptic ordinal                 *)
(* A cell of a text column (IntervalType, PMStatus, Site, ...) is a TLA+   *)
(* string; NaNS and NoneS stand for float NaN and None in such a column.   *)
(* "Meter " and "Paused " are the text values with a surrounding blank;     *)
(* "blank" is a cell holding blanks only.                                  *)
(***************************************************************************)
EXTENDS Integers, Sequences, FiniteSets, TLC

VARIABLES
    df,             \* st.session_state.df: the record collection
    file,           \* pm_data.csv as read_csv would read it
    today,          \* date.today()
    ticks,          \* how many times the date has advanced
    due_soon_days,  \* st.session_state.due_soon_days
    meter_soon,     \* st.session_state.meter_soon
    status_filter,  \* st.session_state.status_filter
    widgets,        \* the sidebar's filter widgets
    op,             \* the operation that led to this state, with its inputs
    pre,            \* the collection as that operation found it
    nops,           \* how many operations the session has run
    memo,           \* the latest call of compute_next_due: row, date, result
    computed_on     \* per record, the date its due point was last computed

vars == <<df, file, today, ticks, due_soon_days, meter_soon, status_filter,
          widgets, op, pre, nops, memo, computed_on>>

-----------------------------------------------------------------------------
(* Configuration *)

PRIORITIES == <<"Low", "Medium", "High", "Critical">>
STATUSES == <<"Active", "Paused", "Retired">>
INTERVAL_TYPES == <<"Days", "Weeks", "Months", "Meter">>
DUE_SOON_DAYS_DEFAULT == 14
METER_SOON_THRESHOLD_DEFAULT == 50

Range(s) == {s[i] : i \in DOMAIN s}

-----------------------------------------------------------------------------
(* Python values *)

NaN == [k |-> "nan", v |-> 0]
None == [k |-> "none", v |-> 0]
EmptyStr == [k |-> "empty", v |-> 0]
Junk == [k |-> "text", v |-> 0]
Blank == [k |-> "blank", v |-> 0]
NumStr(tenths) == [k |-> "num", v |-> tenths]
IntStr(n) == NumStr(10 * n)
IntObj(n) == [k |-> "int", v |-> n]
DateStr(d) == [k |-> "date", v |-> d]
DateObj(d) == [k |-> "dateobj", v |-> d]

NaNS == "<float nan>"
NoneS == "<None>"

\* bool(x) of a cell: None, "" and 0 are false; NaN and every other string
\* are true.
Truthy(c) ==
    CASE c.k \in {"none", "empty"} -> FALSE
      [] c.k = "int" -> c.v # 0
      [] OTHER -> TRUE

\* bool(x) of a text cell.
TruthyS(s) == s \notin {NoneS, ""}

\* pd.isna(x)
IsNa(c) == c.k \in {"nan", "none"}

-----------------------------------------------------------------------------
(* The calendar of datetime.date: proleptic Gregorian ordinals *)

IsLeap(y) == (y % 4 = 0 /\ y % 100 # 0) \/ y % 400 = 0

DaysInMonth(y, m) ==
    IF m = 2 THEN (IF IsLeap(y) THEN 29 ELSE 28)
    ELSE IF m \in {4, 6, 9, 11} THEN 30 ELSE 31

DaysBeforeYear(y) ==
    (y - 1) * 365 + ((y - 1) \div 4) - ((y - 1) \div 100) + ((y - 1) \div 400)

RECURSIVE DaysBeforeMonth(_, _)
DaysBeforeMonth(y, m) ==
    IF m = 1 THEN 0 ELSE DaysBeforeMonth(y, m - 1) + DaysInMonth(y, m - 1)

\* date(y, m, d).toordinal()
DateOrd(y, m, d) == DaysBeforeYear(y) + DaysBeforeMonth(y, m) + d

\* date.fromordinal(n) as <<year, month, day>>, for the years the model uses
YMD(n) ==
    LET y == CHOOSE yy \in 2023..2028 :
                 DaysBeforeYear(yy) < n /\ n <= DaysBeforeYear(yy + 1)
        r == n - DaysBeforeYear(y)
        m == CHOOSE mm \in 1..12 :
                 /\ DaysBeforeMonth(y, mm) < r
                 /\ r <= DaysBeforeMonth(y, mm) + DaysInMonth(y, mm)
    IN <<y, m, r - DaysBeforeMonth(y, m)>>

Min(a, b) == IF a <= b THEN a ELSE b

\* dt + relativedelta(months=n): the day is clamped to the target
\* month's last day
AddMonths(n0, n) ==
    LET ymd == YMD(n0)
        total == (ymd[2] - 1) + n
        y == ymd[1] + (total \div 12)
        m == (total % 12) + 1
    IN DateOrd(y, m, Min(ymd[3], DaysInMonth(y, m)))

-----------------------------------------------------------------------------
(* Helpers *)

\* parse_date(s): a date object or None
parse_date(s) ==
    CASE IsNa(s) \/ s.k = "empty" -> None
      [] s.k = "dateobj" -> s
      [] s.k = "date" -> DateObj(s.v)
      [] s.k = "text" -> None

\* nd_date.strftime(DATE_FMT)
strftime(d) == DateStr(d.v)

\* int(float(v)) of a decimal string: truncation toward zero
Trunc(tenths) ==
    IF tenths >= 0 THEN tenths \div 10 ELSE -((-tenths) \div 10)

\* safe_int(v): a Python int or None
safe_int(c) ==
    CASE c.k = "none" -> None
      [] c.k = "empty" -> None
      [] c.k = "int" -> c
      [] c.k = "num" -> IntObj(Trunc(c.v))
      [] c.k \in {"nan", "text", "date"} -> None

\* s.strip() of a text value and of a typed cell
Strip(s) ==
    CASE s = "Meter " -> "Meter"
      [] s = "Paused " -> "Paused"
      [] OTHER -> s

StripCell(c) == IF c.k = "blank" THEN EmptyStr ELSE c

\* (row.get(col) or dflt).strip(): NaN is true and has no strip()
OrDefaultRaises(s) == s = NaNS
OrDefault(s, dflt) == IF TruthyS(s) THEN s ELSE dflt

NoDue == [err |-> FALSE, nd_date |-> None, nd_meter |-> None]
DueRaised == [err |-> TRUE, nd_date |-> None, nd_meter |-> None]

\* The due date of a Days, Weeks or Months record with interval iv and last
\* done date ld, computed on the date `now`
DueDate(t, iv, ld, now) ==
    IF ~Truthy(iv) \/ iv.v <= 0 THEN NoDue
    ELSE LET base == IF Truthy(ld) THEN ld.v ELSE now
         IN [err |-> FALSE,
             nd_date |-> DateObj(CASE t = "Days" -> base + iv.v
                                   [] t = "Weeks" -> base + 7 * iv.v
                                   [] OTHER -> AddMonths(base, iv.v)),
             nd_meter |-> None]

\* The Meter branch with the current meter as the base whenever there is one
DueMeterFromCurrent(iv, lm, cm) ==
    IF ~Truthy(iv) \/ iv.v <= 0 THEN NoDue
    ELSE LET base == IF cm # None THEN cm.v ELSE IF lm # None THEN lm.v ELSE 0
         IN [err |-> FALSE, nd_date |-> None, nd_meter |-> IntObj(base + iv.v)]

\* The due meter of a Meter record with interval iv, last meter lm and
\* current meter cm
DueMeter(iv, lm, cm) ==
    IF ~Truthy(iv) \/ iv.v <= 0 THEN NoDue
    ELSE IF lm = None
         THEN LET base == IF cm # None THEN cm.v ELSE 0
              IN [err |-> FALSE, nd_date |-> None,
                  nd_meter |-> IntObj(base + iv.v)]
         ELSE [err |-> FALSE, nd_date |-> None,
               nd_meter |-> IntObj(lm.v + iv.v)]

\* The calculator giving no due point to a record that is Paused or Retired
ComputeNextDueOfActive(row, now) ==
    IF OrDefaultRaises(row.IntervalType) THEN DueRaised
    ELSE IF row.PMStatus \in {"Paused", "Retired"} THEN NoDue
    ELSE
    LET t == Strip(OrDefault(row.IntervalType, ""))
        iv == safe_int(row.IntervalValue)
    IN  IF t \in {"Days", "Weeks", "Months"}
        THEN DueDate(t, iv, parse_date(row.LastDoneDate), now)
        ELSE IF t = "Meter"
        THEN DueMeter(iv, safe_int(row.LastMeter), safe_int(row.CurrentMeter))
        ELSE NoDue

\* compute_next_due(row) run on the date `now`: the pair (nd_date, nd_meter),
\* or err when the call raises AttributeError
compute_next_due(row, now) ==
    IF OrDefaultRaises(row.IntervalType) THEN DueRaised
    ELSE
    LET t == Strip(OrDefault(row.IntervalType, ""))
        iv == safe_int(row.IntervalValue)
        ld == parse_date(row.LastDoneDate)
        lm == safe_int(row.LastMeter)
        cm == safe_int(row.CurrentMeter)
    IN  IF t \in {"Days", "Weeks", "Months"} THEN DueDate(t, iv, ld, now)
        ELSE IF t = "Meter" THEN DueMeter(iv, lm, cm)
        ELSE NoDue

\* The three-way comparison of compute_status
Urgency(left, soon) ==
    IF left < 0 THEN "Overdue" ELSE IF left <= soon THEN "Due Soon" ELSE "OK"

\* The urgency branches of compute_status: (s, delta) before PMStatus is read
Classified(row, dsd, ms, now) ==
    LET t == Strip(OrDefault(row.IntervalType, ""))
        nd == parse_date(row.NextDueDate)
        ndm == safe_int(row.NextDueMeter)
        cm == safe_int(row.CurrentMeter)
    IN IF t \in {"Days", "Weeks", "Months"} THEN
           IF ~Truthy(nd) THEN [s |-> "Unknown", delta |-> None]
           ELSE [s |-> Urgency(nd.v - now, dsd), delta |-> IntObj(nd.v - now)]
       ELSE IF t = "Meter" THEN
           IF ndm = None \/ cm = None THEN [s |-> "Unknown", delta |-> None]
           ELSE [s |-> Urgency(ndm.v - cm.v, ms), delta |-> IntObj(ndm.v - cm.v)]
       ELSE [s |-> "Unknown", delta |-> None]

\* The classifier reporting no delta for a record that is Paused or Retired
ComputeStatusNoDeltaWhenInactive(row, dsd, ms, now) ==
    IF OrDefaultRaises(row.IntervalType) \/ OrDefaultRaises(row.PMStatus)
    THEN [err |-> TRUE, s |-> "Unknown", delta |-> None]
    ELSE
    LET r == Classified(row, dsd, ms, now)
        pm_state == Strip(OrDefault(row.PMStatus, "Active"))
    IN IF pm_state \in {"Paused", "Retired"}
       THEN [err |-> FALSE, s |-> pm_state, delta |-> None]
       ELSE [err |-> FALSE, s |-> r.s, delta |-> r.delta]

\* compute_status(row, due_soon_days, meter_soon) run on the date `now`:
\* (s, delta), or err when the call raises AttributeError
compute_status(row, dsd, ms, now) ==
    IF OrDefaultRaises(row.IntervalType) \/ OrDefaultRaises(row.PMStatus)
    THEN [err |-> TRUE, s |-> "Unknown", delta |-> None]
    ELSE
    LET r == Classified(row, dsd, ms, now)
        pm_state == Strip(OrDefault(row.PMStatus, "Active"))
    IN [err |-> FALSE,
        s |-> IF pm_state \in {"Paused", "Retired"} THEN pm_state ELSE r.s,
        delta |-> r.delta]

-----------------------------------------------------------------------------
(* Bounds *)

\* How many operations a session runs
MaxOps == 2
\* How many times the processing date advances during a session
MaxTicks == 1

\* date.today() when the session starts: 2025-01-30
T0 == DateOrd(2025, 1, 30)

\* The columns of base_columns() the model follows.  AssetID and Owner are
\* read by no operation the model states.
Columns == {"Site", "AssetName", "Component", "PMTask", "Notes", "Priority",
            "PMStatus", "IntervalType", "IntervalValue", "LastDoneDate",
            "LastMeter", "CurrentMeter", "NextDueDate", "NextDueMeter"}
TextColumns == {"Site", "AssetName", "Component", "PMTask", "Notes", "Priority",
                "PMStatus", "IntervalType"}

-----------------------------------------------------------------------------
(* Frames: a DataFrame is its rows and the columns it lacks *)

Frame(rows) == [rows |-> rows, missing |-> {}]

\* ensure_columns(df): a column the frame lacks is created holding None
ensure_columns(frame) ==
    [i \in DOMAIN frame.rows |->
        [c \in Columns |->
            IF c \in frame.missing
            THEN (IF c \in TextColumns THEN NoneS ELSE None)
            ELSE frame.rows[i][c]]]

\* recompute_all(df) run on the date `now`
RecomputeRaises(rows, now) ==
    \E i \in DOMAIN rows : compute_next_due(rows[i], now).err

StoreDue(row, nd, absent) ==
    [row EXCEPT !.NextDueDate =
                    IF nd.nd_date.k = "dateobj" THEN strftime(nd.nd_date) ELSE absent,
                !.NextDueMeter =
                    IF nd.nd_meter # None THEN nd.nd_meter ELSE absent]

\* recompute_all leaving the due points as the frame has them
KeepDuePoints(rows, now) == rows

recompute_all(rows, now) ==
    [i \in DOMAIN rows |-> StoreDue(rows[i], compute_next_due(rows[i], now), None)]

\* What to_csv writes and read_csv(dtype=str) reads back: an absent or empty
\* value comes back as NaN, a number as its decimal string
CsvCell(c) ==
    CASE c.k \in {"none", "nan", "empty"} -> NaN
      [] c.k = "int" -> IntStr(c.v)
      [] OTHER -> c

CsvText(s) == IF s \in {NoneS, NaNS, ""} THEN NaNS ELSE s

to_csv(rows) ==
    [i \in DOMAIN rows |->
        [c \in Columns |->
            IF c \in TextColumns THEN CsvText(rows[i][c]) ELSE CsvCell(rows[i][c])]]

\* sample_data() built on the date `now`
SampleRow(site, asset, component, task, it, iv, ldd, lm, cm, prio, st, notes) ==
    [Site |-> site, AssetName |-> asset, Component |-> component,
     PMTask |-> task, Notes |-> notes, Priority |-> prio, PMStatus |-> st,
     IntervalType |-> it, IntervalValue |-> iv, LastDoneDate |-> ldd,
     LastMeter |-> lm, CurrentMeter |-> cm,
     NextDueDate |-> EmptyStr, NextDueMeter |-> EmptyStr]

sample_data(now) ==
    << SampleRow("Main Plant", "Air Compressor #1", "Compressor",
                 "Change oil & filter", "Months", IntStr(6),
                 strftime(DateObj(AddMonths(now, -7))), EmptyStr, EmptyStr,
                 "High", "Active", "Use ISO 68"),
       SampleRow("Main Plant", "Forklift A", "Engine",
                 "Service @ every 200 hrs", "Meter", IntStr(200),
                 strftime(DateObj(AddMonths(now, -2))), IntStr(1400), IntStr(1585),
                 "Medium", "Active", ""),
       SampleRow("Warehouse", "Exhaust Fan", "Motor", "Grease bearings",
                 "Weeks", IntStr(12),
                 strftime(DateObj(now - 7 * 10)), EmptyStr, EmptyStr,
                 "Low", "Paused", "Awaiting parts") >>

\* load_data(): pm_data.csv (exists, frame), or the sample data
NoFile == [exists |-> FALSE, frame |-> Frame(<<>>)]
FileOf(frame) == [exists |-> TRUE, frame |-> frame]

LoadFrame(f, now) ==
    IF f.exists THEN ensure_columns(f.frame) ELSE sample_data(now)

LoadRaises(f, now) == RecomputeRaises(LoadFrame(f, now), now)

load_data(f, now) == recompute_all(LoadFrame(f, now), now)

-----------------------------------------------------------------------------
(* The KPI counts and what the script reaches *)

\* The loop of the KPI tiles: counts[s] = counts.get(s, 0) + 1 for every row;
\* raised when compute_status raises on a row
NoCounts ==
    [s \in {"Overdue", "Due Soon", "OK", "Unknown", "Paused", "Retired"} |-> 0]

RECURSIVE CountLoop(_, _, _, _, _, _)
CountLoop(rows, i, counts, dsd, ms, now) ==
    IF i > Len(rows) THEN [raised |-> FALSE, counts |-> counts]
    ELSE LET st == compute_status(rows[i], dsd, ms, now)
         IN IF st.err THEN [raised |-> TRUE, counts |-> counts]
            ELSE CountLoop(rows, i + 1,
                           [counts EXCEPT ![st.s] = counts[st.s] + 1],
                           dsd, ms, now)

kpi_counts(rows, dsd, ms, now) == CountLoop(rows, 1, NoCounts, dsd, ms, now)

\* The script runs top to bottom on every interaction: the forms below the
\* KPI tiles are reached only when the KPI loop did not raise.
ReachesForms == ~kpi_counts(df, due_soon_days, meter_soon, today).raised

-----------------------------------------------------------------------------
(* The Add / Edit form *)

\* A widget's input: <<>> when the user leaves the widget as shown, <<v>>
\* when the user enters v
Shown(input, default) == IF input = <<>> THEN default ELSE input[1]

\* The form cannot be drawn for a row whose IntervalValue float() rejects or
\* st.number_input(0, 100000) refuses: the script stops before the buttons
FormRenders(row) ==
    \/ row.IntervalValue.k \in {"nan", "none", "empty"}
    \/ /\ row.IntervalValue.k = "num"
       /\ Trunc(row.IntervalValue.v) \in 0..100000

\* The values the widgets show: idx = 0 is "Add New"
FormDefaults(rows, idx, now) ==
    [site |-> IF idx # 0 THEN rows[idx].Site ELSE "",
     asset_name |-> IF idx # 0 THEN rows[idx].AssetName ELSE "",
     component |-> IF idx # 0 THEN rows[idx].Component ELSE "",
     task |-> IF idx # 0 THEN rows[idx].PMTask ELSE "",
     notes |-> IF idx # 0 /\ rows[idx].Notes # NaNS THEN rows[idx].Notes ELSE "",
     interval_type |->
         IF idx # 0 /\ rows[idx].IntervalType \in Range(INTERVAL_TYPES)
         THEN rows[idx].IntervalType ELSE INTERVAL_TYPES[1],
     interval_value |->
         IF idx # 0 /\ rows[idx].IntervalValue.k = "num"
         THEN Trunc(rows[idx].IntervalValue.v) ELSE 0,
     priority |->
         IF idx # 0 /\ rows[idx].Priority \in Range(PRIORITIES)
         THEN rows[idx].Priority ELSE PRIORITIES[2],
     pm_status |->
         IF idx # 0 /\ rows[idx].PMStatus \in Range(STATUSES)
         THEN rows[idx].PMStatus ELSE STATUSES[1],
     last_done_date |->
         IF idx # 0 /\ Truthy(parse_date(rows[idx].LastDoneDate))
         THEN parse_date(rows[idx].LastDoneDate) ELSE DateObj(now),
     last_meter |->
         IF idx # 0 /\ rows[idx].LastMeter.k # "nan"
         THEN rows[idx].LastMeter ELSE EmptyStr,
     current_meter |->
         IF idx # 0 /\ rows[idx].CurrentMeter.k # "nan"
         THEN rows[idx].CurrentMeter ELSE EmptyStr]

FormValues(rows, idx, typed, now) ==
    LET d == FormDefaults(rows, idx, now)
    IN [site |-> Shown(typed.site, d.site),
        asset_name |-> Shown(typed.asset_name, d.asset_name),
        component |-> d.component,
        task |-> d.task,
        notes |-> d.notes,
        interval_type |-> Shown(typed.interval_type, d.interval_type),
        interval_value |-> Shown(typed.interval_value, d.interval_value),
        priority |-> d.priority,
        pm_status |-> Shown(typed.pm_status, d.pm_status),
        last_done_date |-> Shown(typed.last_done_date, d.last_done_date),
        last_meter |-> Shown(typed.last_meter, d.last_meter),
        current_meter |-> Shown(typed.current_meter, d.current_meter)]

\* The row "Save PM" builds from the widgets, before the due point is stored
FormRow(f) ==
    [Site |-> f.site, AssetName |-> f.asset_name,
     Component |-> f.component, PMTask |-> f.task, Notes |-> f.notes,
     Priority |-> f.priority, PMStatus |-> f.pm_status,
     IntervalType |-> f.interval_type,
     IntervalValue |->
         IF f.interval_value # 0 THEN IntStr(f.interval_value) ELSE EmptyStr,
     LastDoneDate |-> strftime(f.last_done_date),
     LastMeter |-> IF Truthy(f.last_meter) THEN f.last_meter ELSE EmptyStr,
     CurrentMeter |-> IF Truthy(f.current_meter) THEN f.current_meter ELSE EmptyStr,
     NextDueDate |-> EmptyStr, NextDueMeter |-> EmptyStr]

SavedRow(f, now) ==
    StoreDue(FormRow(f), compute_next_due(FormRow(f), now), EmptyStr)

-----------------------------------------------------------------------------
(* Inputs *)

\* Rows of the files a user loads or imports, as read_csv reads them
FileRow(it, iv, ldd, lm, cm, st, ndd, ndm) ==
    [Site |-> "Main Plant", AssetName |-> "Forklift A", Component |-> "Engine",
     PMTask |-> "Service @ every 200 hrs", Notes |-> NaNS,
     Priority |-> "Medium", PMStatus |-> st, IntervalType |-> it, IntervalValue |-> iv,
     LastDoneDate |-> ldd, LastMeter |-> lm, CurrentMeter |-> cm,
     NextDueDate |-> ndd, NextDueMeter |-> ndm]

\* no last-done date: the due date is counted from the processing date; the
\* file's own due date is stale
RowNoLastDone ==
    FileRow("Days", IntStr(1), NaN, NaN, NaN, "Active", DateStr(T0 + 5), NaN)
\* no last meter: the due meter is counted from the current meter
RowNoLastMeter ==
    FileRow("Meter", IntStr(1), DateStr(T0 - 1), NaN, IntStr(3), "Active",
            NaN, IntStr(99))
\* a due meter and no current meter
RowNoCurrentMeter ==
    FileRow("Meter", IntStr(1), NaN, IntStr(2), NaN, "Retired", NaN, NaN)
\* 2025-01-31 plus a month
RowMonthEnd ==
    FileRow("Months", IntStr(1), DateStr(T0 + 1), NaN, NaN, "Paused", NaN, NaN)
\* an interval that is no number, with stale due points
RowBadInterval ==
    FileRow("Weeks", Junk, DateStr(T0 - 1), NaN, NaN, "Active",
            DateStr(T0 + 5), IntStr(99))
\* a type that is none of the four
RowOtherType ==
    FileRow("Hours", IntStr(1), DateStr(T0 - 1), IntStr(2), IntStr(3), "Active",
            DateStr(T0 + 5), IntStr(99))
\* empty PMStatus and IntervalValue cells
RowNoStatus ==
    FileRow("Days", NaN, DateStr(T0 - 1), NaN, NaN, NaNS, NaN, NaN)
\* "Meter" followed by a blank
RowPaddedType ==
    FileRow("Meter ", IntStr(1), DateStr(T0 - 1), IntStr(2), IntStr(3), "Active",
            NaN, NaN)
\* an empty IntervalType cell
RowNoType ==
    FileRow(NaNS, IntStr(1), DateStr(T0 - 1), NaN, NaN, "Active", NaN, NaN)

\* Columns a file may lack
LackedColumns == {"PMStatus", "LastMeter", "NextDueDate", "NextDueMeter"}

ImportFrames ==
    { Frame(<<>>),
      Frame(<<RowNoLastMeter, RowNoLastDone>>),
      Frame(<<RowNoCurrentMeter, RowMonthEnd>>),
      Frame(<<RowBadInterval, RowOtherType>>),
      Frame(<<RowPaddedType>>),
      Frame(<<[RowMonthEnd EXCEPT !.PMStatus = "Active",
                                  !.NextDueDate = DateStr(T0 + 5)],
              RowMonthEnd>>),
      Frame(<<RowNoStatus>>),
      Frame(<<RowNoType>>),
      [rows |-> <<RowNoCurrentMeter>>, missing |-> LackedColumns] }

\* What the user enters in the Add / Edit form
Untouched ==
    [site |-> <<>>, asset_name |-> <<>>, interval_type |-> <<>>,
     interval_value |-> <<>>, pm_status |-> <<>>, last_done_date |-> <<>>,
     last_meter |-> <<>>, current_meter |-> <<>>]

Typed ==
    { Untouched,
      [Untouched EXCEPT !.interval_value = <<0>>],
      [Untouched EXCEPT !.interval_type = <<"Meter">>, !.interval_value = <<1>>,
                        !.last_meter = <<IntStr(2)>>,
                        !.current_meter = <<IntStr(3)>>],
      [Untouched EXCEPT !.interval_value = <<1>>, !.pm_status = <<"Paused">>,
                        !.last_done_date = <<DateObj(T0 - 1)>>] }

\* "Add New": the user names the asset
TypedNew ==
    {[t EXCEPT !.site = <<"Warehouse">>, !.asset_name = <<"Exhaust Fan">>] :
        t \in Typed}

\* Log Completion: the completion date and the completion meter's text
Completions(now) ==
    { <<now, EmptyStr>>, <<now, Blank>>, <<now, IntStr(7)>>,
      <<T0 - 1, IntStr(7)>>, <<now, Junk>> }

\* Quick Meter Update: the reading
BulkReadings == {IntStr(4)}

IoOutcomes == {"ok", "write fails"}

-----------------------------------------------------------------------------
(* Operations *)

NoOp ==
    [name |-> "start", idx |-> 0, io |-> "ok", ld_given |-> FALSE,
     lm_given |-> FALSE, date |-> 0, meter |-> EmptyStr, sel |-> {},
     loaded |-> <<>>, applied |-> TRUE]

NoMemo == [called |-> FALSE, date |-> 0, row |-> <<>>, nd |-> NoDue]
Call(row, now) ==
    [called |-> TRUE, date |-> now, row |-> row, nd |-> compute_next_due(row, now)]

\* recompute_all calls compute_next_due on every row: the last call
LastCall(rows, now, before) ==
    IF Len(rows) = 0 THEN before ELSE Call(rows[Len(rows)], now)

AllOn(rows, now) == [i \in DOMAIN rows |-> now]

\* save_data(df): to_csv, which an I/O error stops
Saved(rows, io) == IF io = "ok" THEN FileOf(Frame(to_csv(rows))) ELSE file

View == <<due_soon_days, meter_soon, status_filter, widgets>>

DefaultWidgets ==
    [site_f |-> "(All)", asset_f |-> "(All)", priority_f |-> "(All)",
     pmstatus_f |-> "(All)", interval_f |-> Range(INTERVAL_TYPES), q |-> ""]

\* A session starts: load_data(), writing the sample data when there is no
\* pm_data.csv; thresholds and filter at their defaults
Start(f, now) ==
    /\ ~LoadRaises(f, now)
    /\ df = load_data(f, now)
    /\ file = IF f.exists THEN f ELSE FileOf(Frame(to_csv(sample_data(now))))
    /\ today = now
    /\ ticks = 0
    /\ due_soon_days = DUE_SOON_DAYS_DEFAULT
    /\ meter_soon = METER_SOON_THRESHOLD_DEFAULT
    /\ status_filter = "(none)"
    /\ widgets = DefaultWidgets
    /\ op = [NoOp EXCEPT !.loaded = LoadFrame(f, now)]
    /\ pre = <<>>
    /\ nops = 0
    /\ memo = LastCall(LoadFrame(f, now), now, NoMemo)
    /\ computed_on = AllOn(df, now)

InitFiles == {NoFile} \cup {FileOf(fr) : fr \in ImportFrames}

Init == \E f \in InitFiles : Start(f, T0)

\* Every operation: one more run of the script
Ran(o) ==
    /\ nops < MaxOps
    /\ nops' = nops + 1
    /\ op' = o
    /\ pre' = df
    /\ UNCHANGED <<today, ticks, View>>

\* The sidebar's "Import CSV": read_csv or recompute_all may raise, and the
\* except clause reports it
ImportRaises(frame, io, now) ==
    io = "read fails" \/ RecomputeRaises(ensure_columns(frame), now)

ImportCsv(frame, io) ==
    /\ Ran([NoOp EXCEPT !.name = "import", !.io = io,
                        !.loaded = IF io = "read fails" THEN <<>>
                                   ELSE ensure_columns(frame),
                        !.applied = ~ImportRaises(frame, io, today)])
    /\ IF ImportRaises(frame, io, today)
       THEN UNCHANGED <<df, file, memo, computed_on>>
       ELSE /\ df' = recompute_all(ensure_columns(frame), today)
            /\ file' = Saved(df', io)
            /\ memo' = LastCall(ensure_columns(frame), today, memo)
            /\ computed_on' = AllOn(df', today)

\* The sidebar's "Save to pm_data.csv"
SaveButton(io) ==
    /\ Ran([NoOp EXCEPT !.name = "save", !.io = io])
    /\ file' = Saved(df, io)
    /\ UNCHANGED <<df, memo, computed_on>>

\* "Save PM" in mode "Add New"
CreatePM(typed, io) ==
    /\ Ran([NoOp EXCEPT !.name = "create", !.idx = Len(df) + 1, !.io = io])
    /\ LET f == FormValues(df, 0, typed, today)
       IN /\ df' = Append(df, SavedRow(f, today))
          /\ memo' = Call(FormRow(f), today)
    /\ computed_on' = Append(computed_on, today)
    /\ file' = Saved(df', io)

\* "Save PM" in mode "Edit Existing" on row idx
EditPM(idx, typed, io) ==
    /\ idx \in DOMAIN df
    /\ FormRenders(df[idx])
    /\ Ran([NoOp EXCEPT !.name = "edit", !.idx = idx, !.io = io,
                        !.ld_given = (typed.last_done_date # <<>>),
                        !.lm_given = (typed.last_meter # <<>>)])
    /\ LET f == FormValues(df, idx, typed, today)
       IN /\ df' = [df EXCEPT ![idx] = SavedRow(f, today)]
          /\ memo' = Call(FormRow(f), today)
    /\ computed_on' = [computed_on EXCEPT ![idx] = today]
    /\ file' = Saved(df', io)

\* "Delete PM" on row idx: drop and reset_index
Dropped(rows, idx) ==
    [i \in 1..(Len(rows) - 1) |-> IF i < idx THEN rows[i] ELSE rows[i + 1]]

DeletePM(idx, io) ==
    /\ idx \in DOMAIN df
    /\ FormRenders(df[idx])
    /\ Ran([NoOp EXCEPT !.name = "delete", !.idx = idx, !.io = io])
    /\ df' = Dropped(df, idx)
    /\ computed_on' = Dropped(computed_on, idx)
    /\ file' = Saved(df', io)
    /\ UNCHANGED memo

\* "Log Completion" on row i_sel
LoggedRow(row, new_date, new_meter) ==
    LET r1 == [row EXCEPT !.LastDoneDate = strftime(DateObj(new_date))]
    IN IF r1.IntervalType = "Meter" /\ Truthy(StripCell(new_meter))
       THEN [r1 EXCEPT !.LastMeter = StripCell(new_meter),
                       !.CurrentMeter = StripCell(new_meter)]
       ELSE r1

LogCompletion(i_sel, new_date, new_meter, io) ==
    /\ i_sel \in DOMAIN df
    /\ Ran([NoOp EXCEPT !.name = "log", !.idx = i_sel, !.io = io,
                        !.date = new_date, !.meter = new_meter])
    /\ LET row == LoggedRow(df[i_sel], new_date, new_meter)
       IN /\ df' = [df EXCEPT ![i_sel] =
                        StoreDue(row, compute_next_due(row, today), EmptyStr)]
          /\ memo' = Call(row, today)
    /\ computed_on' = [computed_on EXCEPT ![i_sel] = today]
    /\ file' = Saved(df', io)

\* "Quick Meter Update" on the selected rows
MeterUpdated(rows, sel, reading) ==
    [i \in DOMAIN rows |->
        IF i \in sel THEN [rows[i] EXCEPT !.CurrentMeter = reading] ELSE rows[i]]

BulkMeterUpdate(sel, reading, io) ==
    /\ sel # {}
    /\ Ran([NoOp EXCEPT !.name = "bulk", !.io = io, !.sel = sel,
                        !.meter = reading])
    /\ df' = recompute_all(MeterUpdated(df, sel, reading), today)
    /\ memo' = LastCall(MeterUpdated(df, sel, reading), today, memo)
    /\ computed_on' = AllOn(df', today)
    /\ file' = Saved(df', io)

\* The browser session ends and a new one starts: load_data() again
NewSession ==
    /\ ~LoadRaises(file, today)
    /\ Ran([NoOp EXCEPT !.name = "load", !.loaded = LoadFrame(file, today)])
    /\ df' = load_data(file, today)
    /\ memo' = LastCall(LoadFrame(file, today), today, memo)
    /\ computed_on' = AllOn(df', today)
    /\ UNCHANGED file

\* Midnight passes while the session is open
Tick ==
    /\ ticks < MaxTicks
    /\ today' = today + 1
    /\ ticks' = ticks + 1
    /\ op' = [NoOp EXCEPT !.name = "tick"]
    /\ pre' = df
    /\ UNCHANGED <<df, file, memo, computed_on, nops, View>>

\* The handlers with their inputs.  The sidebar runs before the KPI tiles;
\* the forms are below them.
Import ==
    \E fr \in ImportFrames, io \in IoOutcomes \cup {"read fails"} :
        ImportCsv(fr, io)

Save == \E io \in IoOutcomes : SaveButton(io)

Create ==
    /\ ReachesForms
    /\ \E t \in TypedNew, io \in IoOutcomes : CreatePM(t, io)

Edit ==
    /\ ReachesForms
    /\ \E i \in DOMAIN df, t \in Typed, io \in IoOutcomes : EditPM(i, t, io)

Delete ==
    /\ ReachesForms
    /\ \E i \in DOMAIN df, io \in IoOutcomes : DeletePM(i, io)

Log ==
    /\ ReachesForms
    /\ \E i \in DOMAIN df, c \in Completions(today), io \in IoOutcomes :
           LogCompletion(i, c[1], c[2], io)

Bulk ==
    /\ ReachesForms
    /\ \E sel \in SUBSET (DOMAIN df), r \in BulkReadings, io \in IoOutcomes :
           BulkMeterUpdate(sel, r, io)

Next ==
    \/ Import
    \/ Save
    \/ Create
    \/ Edit
    \/ Delete
    \/ Log
    \/ Bulk
    \/ NewSession
    \/ Tick

Spec == Init /\ [][Next]_vars

-----------------------------------------------------------------------------
(* The sidebar and the KPI tiles *)

Data == <<df, file, today, ticks, op, pre, nops, memo, computed_on>>

DueSoonInputs == {1, 2, DUE_SOON_DAYS_DEFAULT}
MeterSoonInputs == {1, 2, METER_SOON_THRESHOLD_DEFAULT}

\* "Days = 'Due Soon' cutoff"
SetDueSoon(v) ==
    /\ v # due_soon_days
    /\ due_soon_days' = v
    /\ UNCHANGED <<Data, meter_soon, status_filter, widgets>>

\* "Meters = 'Due Soon' cutoff"
SetMeterSoon(v) ==
    /\ v # meter_soon
    /\ meter_soon' = v
    /\ UNCHANGED <<Data, due_soon_days, status_filter, widgets>>

DueSoon == \E v \in DueSoonInputs : SetDueSoon(v)
MeterSoon == \E v \in MeterSoonInputs : SetMeterSoon(v)

\* The options of the Site and Asset select boxes: the column's values that
\* are not NA
Options(col) ==
    {"(All)"} \cup {df[i][col] : i \in {j \in DOMAIN df : df[j][col] \notin {NaNS, NoneS}}}

SetWidget(w, v) ==
    /\ v # widgets[w]
    /\ widgets' = [widgets EXCEPT ![w] = v]
    /\ UNCHANGED <<Data, due_soon_days, meter_soon, status_filter>>

SiteFilter == \E v \in Options("Site") : SetWidget("site_f", v)
AssetFilter == \E v \in Options("AssetName") : SetWidget("asset_f", v)
PriorityFilter == \E v \in {"(All)", PRIORITIES[3]} : SetWidget("priority_f", v)
PmStatusFilter == \E v \in {"(All)", STATUSES[2]} : SetWidget("pmstatus_f", v)
IntervalFilter ==
    \E v \in {Range(INTERVAL_TYPES), {INTERVAL_TYPES[4]}, {}} :
        SetWidget("interval_f", v)
\* The search inputs: a padded mixed-case word, a word found in Notes only,
\* and a full stop.
SearchInputs == {"", " Fork", "iso", "."}
Search == \E v \in SearchInputs : SetWidget("q", v)

\* A KPI tile is clicked
kpi_button(label) ==
    /\ ReachesForms
    /\ label # status_filter
    /\ status_filter' = label
    /\ UNCHANGED <<Data, due_soon_days, meter_soon, widgets>>

KpiClick == \E label \in DOMAIN NoCounts : kpi_button(label)

\* "Clear Filter"
ClearFilter ==
    /\ ReachesForms
    /\ status_filter # "(none)"
    /\ status_filter' = "(none)"
    /\ UNCHANGED <<Data, due_soon_days, meter_soon, widgets>>

NextView ==
    \/ DueSoon
    \/ MeterSoon
    \/ SiteFilter
    \/ AssetFilter
    \/ PriorityFilter
    \/ PmStatusFilter
    \/ IntervalFilter
    \/ Search
    \/ KpiClick
    \/ ClearFilter
    \/ Tick

SpecView == Init /\ [][NextView]_vars

\* ---------------------------------------------------------------------------
\* The PM list: apply_filters
\* ---------------------------------------------------------------------------

UpperLetters == "ABCDEFGHIJKLMNOPQRSTUVWXYZ"
LowerLetters == "abcdefghijklmnopqrstuvwxyz"

CharAt(s, i) == SubSeq(s, i, i)

LowerChar(c) ==
    IF \E i \in 1..Len(UpperLetters) : CharAt(UpperLetters, i) = c
    THEN LET i == CHOOSE j \in 1..Len(UpperLetters) : CharAt(UpperLetters, j) = c
         IN CharAt(LowerLetters, i)
    ELSE c

\* str.lower()
RECURSIVE lower(_)
lower(s) ==
    IF s = "" THEN ""
    ELSE LowerChar(CharAt(s, 1)) \o lower(SubSeq(s, 2, Len(s)))

\* q.strip(): the blanks at both ends are dropped
RECURSIVE StripText(_)
StripText(s) ==
    IF s = "" THEN ""
    ELSE IF CharAt(s, 1) = " " THEN StripText(SubSeq(s, 2, Len(s)))
    ELSE IF CharAt(s, Len(s)) = " " THEN StripText(SubSeq(s, 1, Len(s) - 1))
    ELSE s

\* fillna("")
fillna(v) == IF v \in {NaNS, NoneS} THEN "" ELSE v

\* Series.str.contains(pat) searches for the regular expression pat; of the
\* pattern language the model keeps the literal characters and ".", which
\* matches any one character.
str_contains(text, pat) ==
    \E i \in 1..(Len(text) - Len(pat) + 1) :
        \A j \in 1..Len(pat) :
            \/ CharAt(pat, j) = "."
            \/ CharAt(pat, j) = CharAt(text, i + j - 1)

SearchedColumns == <<"PMTask", "Component", "AssetName", "Notes">>

\* The seven filters of apply_filters, in the order of the code.  Each takes
\* the indices still in `out` and answers the indices it keeps, or raises.
Kept(index) == [raised |-> FALSE, index |-> index]

Stage(k, rows, idx, w, sf, dsd, ms, now) ==
    CASE k = 1 ->
           IF w.site_f # "(All)"
           THEN Kept(SelectSeq(idx, LAMBDA i : rows[i].Site = w.site_f))
           ELSE Kept(idx)
      [] k = 2 ->
           IF w.asset_f # "(All)"
           THEN Kept(SelectSeq(idx, LAMBDA i : rows[i].AssetName = w.asset_f))
           ELSE Kept(idx)
      [] k = 3 ->
           IF w.priority_f # "(All)"
           THEN Kept(SelectSeq(idx, LAMBDA i : rows[i].Priority = w.priority_f))
           ELSE Kept(idx)
      [] k = 4 ->
           IF w.pmstatus_f # "(All)"
           THEN Kept(SelectSeq(idx, LAMBDA i : rows[i].PMStatus = w.pmstatus_f))
           ELSE Kept(idx)
      [] k = 5 ->
           IF w.interval_f # {}
           THEN Kept(SelectSeq(idx, LAMBDA i : rows[i].IntervalType \in w.interval_f))
           ELSE Kept(idx)
      [] k = 6 ->
           IF sf # "(none)"
           THEN IF \E n \in 1..Len(idx) :
                      compute_status(rows[idx[n]], dsd, ms, now).err
                THEN [raised |-> TRUE, index |-> idx]
                ELSE Kept(SelectSeq(idx, LAMBDA i :
                              compute_status(rows[i], dsd, ms, now).s = sf))
           ELSE Kept(idx)
      [] k = 7 ->
           IF w.q # "" /\ StripText(w.q) # ""
           THEN LET ql == lower(StripText(w.q))
                IN Kept(SelectSeq(idx, LAMBDA i :
                       \E c \in 1..Len(SearchedColumns) :
                           str_contains(lower(fillna(rows[i][SearchedColumns[c]])),
                                        ql)))
           ELSE Kept(idx)

RECURSIVE FilterInOrder(_, _, _, _, _, _, _, _)
FilterInOrder(order, rows, idx, w, sf, dsd, ms, now) ==
    IF order = <<>> THEN [raised |-> FALSE, index |-> idx]
    ELSE LET out == Stage(Head(order), rows, idx, w, sf, dsd, ms, now)
         IN IF out.raised THEN out
            ELSE FilterInOrder(Tail(order), rows, out.index, w, sf, dsd, ms, now)

CodeOrder == <<1, 2, 3, 4, 5, 6, 7>>

apply_filters(rows, w, sf, dsd, ms, now) ==
    FilterInOrder(CodeOrder, rows, [i \in 1..Len(rows) |-> i], w, sf, dsd, ms, now)

\* filtered = apply_filters(st.session_state.df)
filtered ==
    apply_filters(df, widgets, status_filter, due_soon_days, meter_soon, today)

-----------------------------------------------------------------------------
(* The classifier on one-record collections *)

StatusFrames ==
    { [rows |-> <<FileRow(it, iv, ldd, lm, cm, st, NaN, NaN)>>, missing |-> ms] :
        it \in Range(INTERVAL_TYPES) \cup {"Hours", "Meter "},
        iv \in {NaN, IntStr(0), IntStr(2)},
        ldd \in {NaN, Junk, DateStr(T0 - 2), DateStr(T0)},
        lm \in {NaN, IntStr(2)},
        cm \in {NaN, IntStr(2), IntStr(4), IntStr(5)},
        st \in Range(STATUSES) \cup {NaNS, "Paused "},
        ms \in {{}, {"PMStatus"}, {"IntervalType"}} }

InitStatus == \E fr \in StatusFrames : Start(FileOf(fr), T0)

NextStatus ==
    \/ DueSoon
    \/ MeterSoon
    \/ Tick

SpecStatus == InitStatus /\ [][NextStatus]_vars

-----------------------------------------------------------------------------
(* The collection under Spec *)

Absent(c) == c.k \in {"nan", "none", "empty"}

\* The record's interval type and PM status as the calculator and the
\* classifier read them
TypeOf(row) == Strip(OrDefault(row.IntervalType, ""))
StatusOf(row) == Strip(OrDefault(row.PMStatus, "Active"))

Inactive(row) == StatusOf(row) \in {"Paused", "Retired"}

DateBased(row) == TypeOf(row) \in {"Days", "Weeks", "Months"}

\* The record stores the due point nd as the handlers write it
StoresDue(row, nd) ==
    /\ ~nd.err
    /\ IF nd.nd_date = None THEN Absent(row.NextDueDate)
       ELSE row.NextDueDate = strftime(nd.nd_date)
    /\ IF nd.nd_meter = None THEN Absent(row.NextDueMeter)
       ELSE row.NextDueMeter = nd.nd_meter

Five(row) ==
    <<row.IntervalType, row.IntervalValue, row.LastDoneDate, row.LastMeter,
      row.CurrentMeter>>

PositiveInterval(row) ==
    LET iv == safe_int(row.IntervalValue) IN iv # None /\ iv.v > 0

\* The record's due date is counted from the processing date
CountsFromToday(row) ==
    /\ DateBased(row)
    /\ PositiveInterval(row)
    /\ ~Truthy(parse_date(row.LastDoneDate))

Loads == {"start", "load", "import"}
Mutations == Loads \cup {"create", "edit", "log", "delete", "bulk"}

\* C1 as stated: after any load, import, create, edit, log completion, delete
\* or bulk meter update, every record stores the due point compute_next_due
\* returns for its current inputs.
C1_AsStated ==
    op.name \in Mutations =>
        \A i \in DOMAIN df : StoresDue(df[i], compute_next_due(df[i], today))

\* C1 amended: every record stores the due point compute_next_due returned
\* for its current inputs on the date the record was last computed, which is
\* what compute_next_due returns now unless the record has no last-done date
\* and counts from the processing date; after a load or an import every
\* record's due point is the one computed from the file's inputs on that day,
\* whatever due point the file held.
C1_StoredDuePoints ==
    /\ DOMAIN computed_on = DOMAIN df
    /\ \A i \in DOMAIN df :
          /\ computed_on[i] <= today
          /\ StoresDue(df[i], compute_next_due(df[i], computed_on[i]))
          /\ ~CountsFromToday(df[i]) =>
                 StoresDue(df[i], compute_next_due(df[i], today))
    /\ (op.name \in Loads /\ op.applied) =>
          /\ DOMAIN df = DOMAIN op.loaded
          /\ \A i \in DOMAIN df :
                /\ Five(df[i]) = Five(op.loaded[i])
                /\ StoresDue(df[i], compute_next_due(op.loaded[i], today))

\* A file's stale due date was replaced on load, a day passed, and a later
\* operation recomputed another record only
C1_Witness ==
    /\ op.name \in {"edit", "log"}
    /\ \E i \in DOMAIN df :
          /\ i # op.idx
          /\ computed_on[i] < today
          /\ CountsFromToday(df[i])
          /\ df[i].NextDueDate = DateStr(T0 + 1)
          /\ file.frame.rows[i].NextDueDate = DateStr(T0 + 5)

\* C4 as stated: a record with a positive interval and one of the four types
\* has exactly the due point of its type; any other record has neither and
\* classifies as Unknown unless it is Paused or Retired.
C4_AsStated ==
    \A i \in DOMAIN df :
        LET r == df[i]
            st == compute_status(r, due_soon_days, meter_soon, today)
        IN IF PositiveInterval(r) /\ TypeOf(r) \in Range(INTERVAL_TYPES)
           THEN IF TypeOf(r) = "Meter"
                THEN ~Absent(r.NextDueMeter) /\ Absent(r.NextDueDate)
                ELSE ~Absent(r.NextDueDate) /\ Absent(r.NextDueMeter)
           ELSE /\ Absent(r.NextDueDate)
                /\ Absent(r.NextDueMeter)
                /\ ~Inactive(r) => ~st.err /\ st.s = "Unknown"

\* Log Completion with date D and reading M, where meter_record tells the
\* Meter records: LastDoneDate is D; a Meter record given a reading has LastMeter
\* and CurrentMeter M, any other keeps both; the due point stored is
\* compute_next_due of the updated record; a Meter record with a positive
\* interval and a numeric reading ends with NextDueMeter = M + interval
Completed(meter_record(_)) ==
    LET r == df[op.idx]
        p == pre[op.idx]
        reading == StripCell(op.meter)
        m == safe_int(reading)
    IN /\ DOMAIN df = DOMAIN pre
       /\ \A j \in DOMAIN df : j # op.idx => df[j] = pre[j]
       /\ r.LastDoneDate = DateStr(op.date)
       /\ IF meter_record(p) /\ reading # EmptyStr
          THEN r.LastMeter = reading /\ r.CurrentMeter = reading
          ELSE r.LastMeter = p.LastMeter /\ r.CurrentMeter = p.CurrentMeter
       /\ StoresDue(r, compute_next_due(r, today))
       /\ (meter_record(p) /\ m # None /\ PositiveInterval(p)) =>
              r.NextDueMeter = IntObj(m.v + safe_int(p.IntervalValue).v)

IsMeter(row) == TypeOf(row) = "Meter"
IsMeterUnpadded(row) == row.IntervalType = "Meter"

\* C5 as stated: Log Completion with date D sets LastDoneDate to D; on a
\* Meter record with a reading M it sets LastMeter and CurrentMeter to M,
\* and otherwise leaves both alone; the stored due point is compute_next_due
\* of the updated record, so a Meter record with a positive interval ends
\* with NextDueMeter = M + interval.
C5_AsStated == op.name = "log" => Completed(IsMeter)

\* The same with only the records whose IntervalType is "Meter" to the
\* letter counted as Meter records
C5_ExceptPadded == op.name = "log" => Completed(IsMeterUnpadded)

SameValue(a, b) == (Absent(a) /\ Absent(b)) \/ (~Absent(a) /\ a = b)

\* C6 as stated: an edit that supplies no last-done date leaves LastDoneDate
\* as it was, present or absent, and likewise LastMeter.
C6_AsStated ==
    op.name = "edit" =>
        /\ ~op.ld_given =>
               parse_date(df[op.idx].LastDoneDate) = parse_date(pre[op.idx].LastDoneDate)
        /\ ~op.lm_given =>
               SameValue(df[op.idx].LastMeter, pre[op.idx].LastMeter)

\* Bulk Meter Update writes the reading to the selected records' CurrentMeter
\* and touches no other input of any record
OnlyCurrentMeter ==
    /\ DOMAIN df = DOMAIN pre
    /\ \A i \in DOMAIN df :
          /\ \A c \in Columns \ {"CurrentMeter", "NextDueDate", "NextDueMeter"} :
                 df[i][c] = pre[i][c]
          /\ df[i].CurrentMeter = IF i \in op.sel THEN op.meter
                                  ELSE pre[i].CurrentMeter

\* C7 as stated: Bulk Meter Update changes only CurrentMeter, and every Meter
\* record's NextDueMeter is after the update what it was before.
C7_AsStated ==
    op.name = "bulk" =>
        /\ OnlyCurrentMeter
        /\ \A i \in DOMAIN df :
               IsMeter(df[i]) =>
                   SameValue(df[i].NextDueMeter, pre[i].NextDueMeter)

\* C7 amended: Bulk Meter Update changes only CurrentMeter; the NextDueMeter
\* of a Meter record that has a last meter, or that is not selected, is after
\* the update what it was before; a selected Meter record with no last meter
\* and a positive interval ends with NextDueMeter = reading + interval.
C7_BulkMeterUpdate ==
    op.name = "bulk" =>
        /\ OnlyCurrentMeter
        /\ \A i \in DOMAIN df :
               IsMeter(df[i]) =>
                   IF safe_int(pre[i].LastMeter) # None \/ i \notin op.sel
                   THEN SameValue(df[i].NextDueMeter, pre[i].NextDueMeter)
                   ELSE PositiveInterval(df[i]) =>
                            df[i].NextDueMeter =
                                IntObj(safe_int(op.meter).v
                                       + safe_int(df[i].IntervalValue).v)

\* A reading written to a Meter record that has a last meter and a due meter
C7_Witness ==
    /\ op.name = "bulk"
    /\ \E i \in op.sel :
          /\ IsMeter(df[i])
          /\ safe_int(df[i].LastMeter) # None
          /\ ~Absent(df[i].NextDueMeter)
          /\ df[i].CurrentMeter # pre[i].CurrentMeter

\* C8 as stated: when the file cannot be read or written during import,
\* create, edit, delete or log completion, the collection is afterwards what
\* it was before.
C8_AsStated ==
    (op.name \in {"import", "create", "edit", "delete", "log"} /\ op.io # "ok") =>
        df = pre

\* C9 as stated: two calls of compute_next_due on records that agree on the
\* five inputs return the same pair, whatever the other fields and the dates
\* of the calls.
C9_AsStated ==
    memo.called =>
        \A i \in DOMAIN df :
            Five(df[i]) = Five(memo.row) =>
                compute_next_due(df[i], today) = memo.nd

\* C9 amended: two calls of compute_next_due on records that agree on the
\* five inputs return the same pair, whatever the other fields, when they
\* run on the same processing date or the record does not count from the
\* processing date (it has a last-done date, is no date-based record or has
\* no positive interval); a record that counts from the processing date gets
\* that date plus its interval.  The record a handler stores after the call
\* has the five inputs the call was given.
C9_FunctionOfInputsAndDate ==
    /\ memo.called =>
          \A i \in DOMAIN df :
              Five(df[i]) = Five(memo.row) =>
                  /\ (today = memo.date \/ ~CountsFromToday(df[i])) =>
                         compute_next_due(df[i], today) = memo.nd
                  /\ (CountsFromToday(df[i]) /\ df[i].IntervalType = "Days") =>
                         /\ memo.nd.nd_date.v =
                                memo.date + safe_int(df[i].IntervalValue).v
                         /\ compute_next_due(df[i], today).nd_date.v =
                                today + safe_int(df[i].IntervalValue).v
    /\ op.name \in {"create", "edit", "log"} =>
          Five(df[op.idx]) = Five(memo.row)

\* A day after the latest call, a record agrees with the called one on the
\* five inputs and differs from it elsewhere
C9_Witness ==
    /\ memo.called
    /\ today > memo.date
    /\ memo.nd # NoDue
    /\ \E i \in DOMAIN df :
          /\ Five(df[i]) = Five(memo.row)
          /\ df[i].PMStatus # memo.row.PMStatus
          /\ ~CountsFromToday(df[i])

-----------------------------------------------------------------------------
(* The classifier under SpecStatus and the KPI counts under SpecView *)

\* The record's delta is defined: a date-based record with a due date, a
\* Meter record with a due meter and a current meter
HasDelta(row) ==
    \/ DateBased(row) /\ Truthy(parse_date(row.NextDueDate))
    \/ /\ IsMeter(row)
       /\ safe_int(row.NextDueMeter) # None
       /\ safe_int(row.CurrentMeter) # None

Delta(row, now) ==
    IF DateBased(row) THEN parse_date(row.NextDueDate).v - now
    ELSE safe_int(row.NextDueMeter).v - safe_int(row.CurrentMeter).v

Threshold(row) == IF DateBased(row) THEN due_soon_days ELSE meter_soon

ThreeWayLaw(row) ==
    LET st == compute_status(row, due_soon_days, meter_soon, today)
        delta == Delta(row, today)
    IN /\ ~st.err
       /\ st.delta = IntObj(delta)
       /\ st.s = "Overdue" <=> delta < 0
       /\ st.s = "Due Soon" <=> (0 <= delta /\ delta <= Threshold(row))
       /\ st.s = "OK" <=> delta > Threshold(row)

\* C2 as stated: every record that is not Paused or Retired and has its due
\* point is Overdue iff delta < 0, Due Soon iff 0 <= delta <= threshold and
\* OK iff delta > threshold, and the delta returned is delta.
C2_AsStated ==
    \A i \in DOMAIN df :
        (~Inactive(df[i]) /\ HasDelta(df[i])) => ThreeWayLaw(df[i])

\* The three-way law on the records whose PMStatus cell is not empty
C2_ExceptEmptyStatus ==
    \A i \in DOMAIN df :
        (~Inactive(df[i]) /\ HasDelta(df[i]) /\ df[i].PMStatus # NaNS) =>
            ThreeWayLaw(df[i])

\* C3: a Paused or Retired record is classified as its PMStatus whatever its
\* interval type, interval value and due point, and the delta returned is
\* the one returned for the same record with PMStatus Active.
C3_InactiveOverride ==
    \A i \in DOMAIN df :
        Inactive(df[i]) =>
            LET st == compute_status(df[i], due_soon_days, meter_soon, today)
                active == compute_status([df[i] EXCEPT !.PMStatus = "Active"],
                                         due_soon_days, meter_soon, today)
            IN /\ ~st.err
               /\ st.s = StatusOf(df[i])
               /\ ~active.err
               /\ st.delta = active.delta
               /\ HasDelta(df[i]) => st.delta = IntObj(Delta(df[i], today))
               /\ ~HasDelta(df[i]) => st.delta = None

\* A Retired record that would be Overdue by one day if it were Active
C3_Witness ==
    \E i \in DOMAIN df :
        /\ StatusOf(df[i]) = "Retired"
        /\ DateBased(df[i])
        /\ compute_status(df[i], due_soon_days, meter_soon, today).delta = IntObj(-1)
        /\ compute_status([df[i] EXCEPT !.PMStatus = "Active"],
                          due_soon_days, meter_soon, today).s = "Overdue"

Tally(s) ==
    Cardinality({i \in DOMAIN df :
        compute_status(df[i], due_soon_days, meter_soon, today).s = s})

\* C10 as stated: the KPI loop counts, for each state, the records of the
\* whole collection that compute_status puts in that state, and the six
\* counts sum to the number of records; the loop reads the collection, the
\* thresholds and the date, and none of the filters.
C10_AsStated ==
    LET kpi == kpi_counts(df, due_soon_days, meter_soon, today)
        c == kpi.counts
    IN /\ ~kpi.raised
       /\ \A s \in DOMAIN NoCounts : c[s] = Tally(s)
       /\ c["Overdue"] + c["Due Soon"] + c["OK"] + c["Unknown"] + c["Paused"]
              + c["Retired"] = Len(df)

\* ---------------------------------------------------------------------------
\* C11: the PM list
\* ---------------------------------------------------------------------------

\* text contains sub as a substring
Substring(text, sub) ==
    \E i \in 1..(Len(text) - Len(sub) + 1) :
        SubSeq(text, i, i + Len(sub) - 1) = sub

\* The conjunction of the filter predicates on record i of the collection
Satisfies(i) ==
    LET r == df[i]
        ql == lower(StripText(widgets.q))
    IN /\ widgets.site_f = "(All)" \/ r.Site = widgets.site_f
       /\ widgets.asset_f = "(All)" \/ r.AssetName = widgets.asset_f
       /\ widgets.priority_f = "(All)" \/ r.Priority = widgets.priority_f
       /\ widgets.pmstatus_f = "(All)" \/ r.PMStatus = widgets.pmstatus_f
       /\ r.IntervalType \in widgets.interval_f
       /\ \/ status_filter = "(none)"
          \/ compute_status(r, due_soon_days, meter_soon, today).s = status_filter
       /\ \/ ql = ""
          \/ \E c \in 1..Len(SearchedColumns) :
                 Substring(lower(fillna(r[SearchedColumns[c]])), ql)

\* The filters applied backwards, and with the two row-wise filters first
OtherOrders == {<<7, 6, 5, 4, 3, 2, 1>>, <<6, 7, 5, 1, 2, 3, 4>>}

InOrder(order) ==
    FilterInOrder(order, df, [i \in 1..Len(df) |-> i], widgets, status_filter,
                  due_soon_days, meter_soon, today)

ListsTheSatisfying ==
    /\ ~filtered.raised
    /\ Range(filtered.index) = {i \in DOMAIN df : Satisfies(i)}
    /\ \A order \in OtherOrders : InOrder(order) = filtered

\* C11 as stated: whenever the script reaches the PM list, apply_filters
\* returns exactly the records that satisfy the conjunction of the filter
\* predicates (site, asset name, priority and pm_status equal to the chosen
\* value or unfiltered; interval_type a member of the chosen subset; the
\* classification equal to the selected state when one is selected; the
\* search text found in the task, component, asset name or notes), whatever
\* the order the filters are applied in.  apply_filters works on a copy, so
\* the collection itself is the same before and after.
C11_AsStated == ReachesForms => ListsTheSatisfying

\* What does hold: with a non-empty chosen subset of interval types and a
\* search text free of pattern characters, the list is the conjunction.
C11_ExceptEmptySubsetAndPattern ==
    (/\ ReachesForms
     /\ widgets.interval_f # {}
     /\ ~Substring(widgets.q, ".")) => ListsTheSatisfying

\* A search that matches through Notes only is listed
C11_NotesOnly ==
    /\ ReachesForms
    /\ widgets.q = "iso"
    /\ filtered.index # <<>>
    /\ Len(filtered.index) < Len(df)

\* The empty chosen subset: no record has its interval type in it, and the
\* list holds every record.
C11_EmptySubsetListsAll ==
    /\ ReachesForms
    /\ widgets.interval_f = {}
    /\ Len(df) > 0
    /\ Len(filtered.index) = Len(df)

\* The search for a full stop: no record holds one, and the list holds
\* every record.
C11_FullStopListsAll ==
    /\ ReachesForms
    /\ widgets.q = "."
    /\ widgets.interval_f # {}
    /\ {k \in DOMAIN df : Satisfies(k)} = {}
    /\ Len(df) > 0
    /\ Len(filtered.index) = Len(df)

=============================================================================
